---- MODULE Spec2Model ----
(***************************************************************************)
(* DNS-01 provider adapters of lego-toolbox: the Present/CleanUp handlers  *)
(* of the adapters, their record lifecycle maps and mutexes, and the       *)
(* backend record set they act on.  One adapter instance is shared by      *)
(* NumCallers concurrent callers (the challenges of one SAN certificate).  *)
(* Every handler is cut into steps at its mutex operations and at its      *)
(* backend calls; a caller standing at a backend-call label is a caller    *)
(* whose network call is in progress.                                      *)
(***************************************************************************)
EXTENDS Integers, Sequences, FiniteSets, TLC

\* ---------------------------------------------------------------- bounds
NumCallers == 2
NumTokens == 2
MaxCalls == 3

Callers == 1..NumCallers
Tokens == 1..NumTokens

\* ACME gives each authorization its own token and key authorization; the
\* wildcard and the base name of one domain are two authorizations that
\* share one challenge FQDN (tokens 1 and 2); further tokens have their own.
DomainOf(t) == (t + 1) \div 2

VARIABLES
    kind,       \* the adapter under test (fixed at construction)
    s0,         \* the backend record set when the adapter was constructed
    records,    \* the backend's TXT records: [id, name, value]
    nextID,     \* the backend's next record id
    recordIDs,  \* the adapter's lifecycle map (recordIDs / inProgressInfo / inProgressFQDNs)
    mu,         \* the adapter's mutex: 0 when free, else the caller holding it
    pc,         \* each caller's position in the handler it runs
    call,       \* each caller's arguments
    loc,        \* each caller's local variables
    created,    \* per token, the id of the record its last successful create made
    log,        \* the calls that have returned, in order of return
    poll,       \* the wait loop of a handler that waits for the backend, and the clock
    lookup,     \* the zone resolver's input and its answer
    input,      \* what the adapter's constructor is given (environment or document)
    built,      \* what each construction path returned
    tfa,        \* inwx: the clock, previousUnlock and the two-factor unlocks made
    user        \* the ACME account (LegoUser): its cached client and its requests

vars == <<kind, s0, records, nextID, recordIDs, mu, pc, call, loc, created, log,
          poll, lookup, input, built, tfa, user>>

\* the state outside the Present/CleanUp handlers and the backend record set
others == <<poll, lookup, input, built, tfa, user>>
None == [none |-> TRUE]

\* ---------------------------------------------------------------- values
\* TXT content: v identifies the text, q tells whether it carries quotes.
Txt(v, q) == [v |-> v, q |-> q]
Quote(x) == [x EXCEPT !.q = TRUE]

\* dns01.GetChallengeInfo: EffectiveFQDN from the domain, Value from keyAuth
\* (keyAuth = token "." thumbprint, so one Value per token).
EffectiveFQDN(t) == DomainOf(t)
Value(t) == Txt(t, FALSE)

OtherValue == Txt(0, FALSE)
ZoneApex == 0

\* errors: <<provider prefix, what failed, ids of the records concerned>>
NilErr == <<"", "nil", <<>>>>
Err(prefix, what, ids) == <<prefix, what, ids>>

NoCall == [op |-> "none", token |-> 0, hadEntry |-> FALSE]
NoLoc == [id |-> 0, ok |-> FALSE, recs |-> <<>>, i |-> 0, tried |-> <<>>,
          failed |-> <<>>, err |-> NilErr]

\* ---------------------------------------------------------------- backend
\* The backend HTTP API: CreateRecord(zone, name, type, value, ttl) -> id,
\* DeleteRecord(zone, id | name+value), ListRecords.
Rec(id, name, value) == [id |-> id, name |-> name, value |-> value]

CreateRecord(name, value) ==
    /\ records' = records \cup {Rec(nextID, name, value)}
    /\ nextID' = nextID + 1

DeleteRecord(id) ==
    /\ records' = {r \in records : r.id # id}
    /\ UNCHANGED nextID

DeleteByName(name) ==
    /\ records' = {r \in records : r.name # name}
    /\ UNCHANGED nextID

DeleteByNameValue(name, value) ==
    /\ records' = {r \in records : ~(r.name = name /\ r.value = value)}
    /\ UNCHANGED nextID

\* replace-only APIs: the TXT records of one name, or of the whole zone, become S
ReplaceByName(name, S) ==
    /\ records' = {r \in records : r.name # name} \cup S
    /\ nextID' = nextID + 1

ReplaceAll(S) ==
    /\ records' = S
    /\ nextID' = nextID + 1

Range(q) == {q[i] : i \in 1..Len(q)}

\* a list response: the matching records in ascending id order
RECURSIVE SortByID(_)
SortByID(S) ==
    IF S = {} THEN <<>>
    ELSE LET m == CHOOSE r \in S : \A x \in S : r.id <= x.id
         IN <<m>> \o SortByID(S \ {m})

ListRecords(name) == SortByID({r \in records : r.name = name})

\* ---------------------------------------------------------------- callers
Goto(c, l) == pc' = [pc EXCEPT ![c] = l]

Lock(c) == mu = 0 /\ mu' = c
Unlock(c) == mu' = 0

\* the handler returns e to its caller; tried and failed are the ids of the
\* records it asked the backend to delete and of those the backend refused
ReturnWith(c, e, tried, failed) ==
    /\ pc' = [pc EXCEPT ![c] = "idle"]
    /\ log' = Append(log, [caller |-> c, op |-> call[c].op, token |-> call[c].token,
                           hadEntry |-> call[c].hadEntry, err |-> e,
                           matched |-> loc[c].recs, tried |-> tried,
                           failed |-> failed])
    /\ call' = [call EXCEPT ![c] = NoCall]
    /\ loc' = [loc EXCEPT ![c] = NoLoc]

Return(c, e) == ReturnWith(c, e, loc[c].tried, loc[c].failed)

InFlight == {c \in Callers : pc[c] # "idle"}
Busy(t) == \E c \in Callers : pc[c] # "idle" /\ call[c].token = t

FqdnKeyed == {"gandiv5", "hostingde"}
\* infomaniak keeps two maps keyed by the token, recordIDs and domainIDs,
\* each with a mutex of its own held only around the map operation
KeyOf(t) ==
    IF kind \in FqdnKeyed THEN EffectiveFQDN(t)
    ELSE IF kind = "infomaniak" THEN <<"recordIDs", t>>
    ELSE t
HasEntry(t) == KeyOf(t) \in DOMAIN recordIDs

Put(m, k, v) == [x \in DOMAIN m \cup {k} |-> IF x = k THEN v ELSE m[x]]
Del(m, k) == [x \in DOMAIN m \ {k} |-> m[x]]

\* ---------------------------------------------------------------- entry
\* the first label of each handler once the challenge's zone is resolved
First(k, op) ==
    IF op = "Present"
    THEN (IF k \in {"gandiv5", "versio"} THEN "p_lock"
          ELSE IF k \in {"godaddy", "ionos", "zonomi"} THEN "list"
          ELSE IF k = "ultradns" THEN "read"
          ELSE IF k = "inwx" THEN "login"
          ELSE "create")
    ELSE (IF k \in {"hosttech", "vercel", "websupport", "loopia", "gandiv5",
                    "hostingde", "versio"} THEN "c_lock"
          ELSE IF k \in {"zonomi", "ultradns"} THEN "delete"
          ELSE IF k = "inwx" THEN "login"
          ELSE "list")

\* gandiv5's CleanUp does no lookup before it takes the mutex, and zonomi's
\* handlers start with their first backend call
Resolves(k, op) == ~(k = "gandiv5" /\ op = "CleanUp") /\ k # "zonomi"

\* a caller invokes Present or CleanUp for a token; the caller contract keeps
\* the calls made for one token sequential
StartCall(c) ==
    /\ pc[c] = "idle"
    /\ Len(log) + Cardinality(InFlight) < MaxCalls
    /\ \E op \in {"Present", "CleanUp"}, t \in Tokens :
          /\ ~Busy(t)
          /\ call' = [call EXCEPT ![c] = [op |-> op, token |-> t, hadEntry |-> HasEntry(t)]]
    /\ Goto(c, "resolve")
    /\ UNCHANGED <<others, kind, s0, records, nextID, recordIDs, mu, loc, created, log>>

\* dns01.GetChallengeInfo, then the zone lookup (dns01.FindZoneByFqdn and the
\* backend's GetZone / zone list), which changes nothing and may fail
Resolve(c) ==
    /\ pc[c] = "resolve"
    /\ \/ /\ Goto(c, First(kind, call[c].op))
          /\ UNCHANGED <<others, kind, s0, records, nextID, recordIDs, mu, call, loc, created, log>>
       \/ /\ Resolves(kind, call[c].op)
          /\ Return(c, Err(kind, "zone", <<>>))
          /\ UNCHANGED <<others, kind, s0, records, nextID, recordIDs, mu, created>>

\* ---------------------------------------------------------------- the mutex
Tok(c) == call[c].token

\* where a handler goes once it holds the mutex
AfterLock(k, l) ==
    IF l = "p_lock"
    THEN (IF k = "gandiv5" THEN "create" ELSE IF k = "versio" THEN "list" ELSE "p_store")
    ELSE IF l = "c_lock"
    THEN (IF k = "versio" THEN "list" ELSE IF k = "hostingde" THEN "c_forget" ELSE "c_lookup")
    ELSE "c_forget"

\* d.recordIDsMu.Lock() (inProgressMu, dnsEntriesMu): blocks while another caller holds it
MutexLock(c) ==
    /\ pc[c] \in {"p_lock", "c_lock", "c_lock2"}
    /\ ~(kind = "hostingde" /\ pc[c] = "p_lock")
    /\ Lock(c)
    /\ Goto(c, AfterLock(kind, pc[c]))
    /\ UNCHANGED <<others, kind, s0, records, nextID, recordIDs, call, loc, created, log>>

\* ---------------------------------------------------------------- hosttech, vercel, websupport
\* the adapters that keep recordIDs[token] = id of the record they created
IDTracked == {"hosttech", "vercel", "websupport"}

\* d.client.AddRecord / CreateRecord: the backend makes the record and returns
\* its id, or the call fails; websupport also fails on a response whose Status
\* is not "success"
AddRecord(c) ==
    /\ kind \in IDTracked /\ pc[c] = "create"
    /\ \/ /\ CreateRecord(EffectiveFQDN(Tok(c)), Value(Tok(c)))
          /\ loc' = [loc EXCEPT ![c].id = nextID]
          /\ created' = [created EXCEPT ![Tok(c)] = nextID]
          /\ Goto(c, "p_lock")
          /\ UNCHANGED <<call, log>>
       \/ /\ Return(c, Err(kind, "backend", <<>>))
          /\ UNCHANGED <<records, nextID, created>>
       \/ /\ kind = "websupport"
          /\ Return(c, Err(kind, "status", <<>>))
          /\ UNCHANGED <<records, nextID, created>>
    /\ UNCHANGED <<others, kind, s0, recordIDs, mu>>

\* d.recordIDs[token] = id; Unlock; return nil
PresentStore(c) ==
    /\ kind \in IDTracked /\ pc[c] = "p_store"
    /\ recordIDs' = Put(recordIDs, Tok(c), loc[c].id)
    /\ Unlock(c)
    /\ Return(c, NilErr)
    /\ UNCHANGED <<others, kind, s0, records, nextID, created>>

\* recordID, ok := d.recordIDs[token]; Unlock; if !ok return "unknown record ID"
CleanUpLookup(c) ==
    /\ kind \in IDTracked /\ pc[c] = "c_lookup"
    /\ Unlock(c)
    /\ IF Tok(c) \in DOMAIN recordIDs
       THEN /\ loc' = [loc EXCEPT ![c].id = recordIDs[Tok(c)], ![c].ok = TRUE]
            /\ Goto(c, "delete")
            /\ UNCHANGED <<call, log>>
       ELSE Return(c, Err(kind, "unknown", <<>>))
    /\ UNCHANGED <<others, kind, s0, records, nextID, recordIDs, created>>

\* hosttech: d.client.DeleteRecord, then return: the map entry stays
hosttech_DeleteRecord(c) ==
    /\ kind = "hosttech" /\ pc[c] = "delete"
    /\ \/ /\ DeleteRecord(loc[c].id)
          /\ Return(c, NilErr)
       \/ /\ UNCHANGED <<records, nextID>>
          /\ Return(c, Err("hosttech", "backend", <<loc[c].id>>))
    /\ UNCHANGED <<others, kind, s0, recordIDs, mu, created>>

\* vercel: on an error of d.client.DeleteRecord CleanUp returns before the map
\* is touched
vercel_DeleteRecord(c) ==
    /\ kind = "vercel" /\ pc[c] = "delete"
    /\ \/ /\ DeleteRecord(loc[c].id)
          /\ Goto(c, "c_lock2")
          /\ UNCHANGED <<call, loc, log>>
       \/ /\ UNCHANGED <<records, nextID>>
          /\ Return(c, Err("vercel", "backend", <<loc[c].id>>))
    /\ UNCHANGED <<others, kind, s0, recordIDs, mu, created>>

\* websupport: a transport error returns at once; a response goes on to the map
\* with its Status (loc.ok) kept for the result
websupport_DeleteRecord(c) ==
    /\ kind = "websupport" /\ pc[c] = "delete"
    /\ \/ /\ DeleteRecord(loc[c].id)
          /\ loc' = [loc EXCEPT ![c].ok = TRUE]
          /\ Goto(c, "c_lock2")
          /\ UNCHANGED <<call, log>>
       \/ /\ UNCHANGED <<records, nextID>>
          /\ loc' = [loc EXCEPT ![c].ok = FALSE]
          /\ Goto(c, "c_lock2")
          /\ UNCHANGED <<call, log>>
       \/ /\ UNCHANGED <<records, nextID>>
          /\ Return(c, Err("websupport", "backend", <<loc[c].id>>))
    /\ UNCHANGED <<others, kind, s0, recordIDs, mu, created>>

\* delete(d.recordIDs, token); Unlock; return (websupport: by the Status)
Forget(c) ==
    /\ kind \in IDTracked /\ pc[c] = "c_forget"
    /\ recordIDs' = Del(recordIDs, Tok(c))
    /\ Unlock(c)
    /\ Return(c, IF loc[c].ok THEN NilErr ELSE Err(kind, "status", <<loc[c].id>>))
    /\ UNCHANGED <<others, kind, s0, records, nextID, created>>

idTracked(c) ==
    \/ AddRecord(c) \/ PresentStore(c) \/ CleanUpLookup(c)
    \/ hosttech_DeleteRecord(c) \/ vercel_DeleteRecord(c) \/ websupport_DeleteRecord(c)
    \/ Forget(c)

\* ---------------------------------------------------------------- loopia
\* the mutex is taken with a deferred Unlock: every return releases it
ReturnUnlock(c, e) == Unlock(c) /\ Return(c, e)

\* d.client.AddTXTRecord returns no id
loopia_AddTXTRecord(c) ==
    /\ kind = "loopia" /\ pc[c] = "create"
    /\ \/ /\ CreateRecord(EffectiveFQDN(Tok(c)), Value(Tok(c)))
          /\ created' = [created EXCEPT ![Tok(c)] = nextID]
          /\ Goto(c, "list")
          /\ UNCHANGED <<call, loc, log>>
       \/ /\ Return(c, Err("loopia", "backend", <<>>))
          /\ UNCHANGED <<records, nextID, created>>
    /\ UNCHANGED <<others, kind, s0, recordIDs, mu>>

\* d.client.GetTXTRecords(ctx, authZone, subDomain)
loopia_PresentGetTXTRecords(c) ==
    /\ kind = "loopia" /\ pc[c] = "list" /\ call[c].op = "Present"
    /\ \/ /\ loc' = [loc EXCEPT ![c].recs = ListRecords(EffectiveFQDN(Tok(c)))]
          /\ Goto(c, "p_lock")
          /\ UNCHANGED <<call, log>>
       \/ Return(c, Err("loopia", "backend", <<>>))
    /\ UNCHANGED <<others, kind, s0, records, nextID, recordIDs, mu, created>>

\* the first listed record whose Rdata is the challenge value gives the id
loopia_PresentStore(c) ==
    /\ kind = "loopia" /\ pc[c] = "p_store"
    /\ LET hits == {i \in 1..Len(loc[c].recs) : loc[c].recs[i].value.v = Value(Tok(c)).v}
       IN IF hits # {}
          THEN /\ recordIDs' = Put(recordIDs, Tok(c),
                                   loc[c].recs[CHOOSE i \in hits : \A j \in hits : i <= j].id)
               /\ ReturnUnlock(c, NilErr)
          ELSE /\ UNCHANGED recordIDs
               /\ ReturnUnlock(c, Err("loopia", "notstored", <<>>))
    /\ UNCHANGED <<others, kind, s0, records, nextID, created>>

\* d.inProgressInfo[token], read without the ok test: 0 for a token never stored
loopia_CleanUpLookup(c) ==
    /\ kind = "loopia" /\ pc[c] = "c_lookup"
    /\ loc' = [loc EXCEPT ![c].id = IF Tok(c) \in DOMAIN recordIDs THEN recordIDs[Tok(c)] ELSE 0]
    /\ Goto(c, "delete")
    /\ UNCHANGED <<others, kind, s0, records, nextID, recordIDs, mu, call, created, log>>

\* d.client.RemoveTXTRecord, the mutex still held
loopia_RemoveTXTRecord(c) ==
    /\ kind = "loopia" /\ pc[c] = "delete"
    /\ \/ /\ DeleteRecord(loc[c].id)
          /\ Goto(c, "list")
          /\ UNCHANGED <<mu, call, loc, log>>
       \/ /\ UNCHANGED <<records, nextID>>
          /\ ReturnUnlock(c, Err("loopia", "backend", <<loc[c].id>>))
    /\ UNCHANGED <<others, kind, s0, recordIDs, created>>

\* d.client.GetTXTRecords: records left under the subdomain end the CleanUp
loopia_CleanUpGetTXTRecords(c) ==
    /\ kind = "loopia" /\ pc[c] = "list" /\ call[c].op = "CleanUp"
    /\ \/ /\ ListRecords(EffectiveFQDN(Tok(c))) # <<>>
          /\ ReturnUnlock(c, NilErr)
       \/ /\ ListRecords(EffectiveFQDN(Tok(c))) = <<>>
          /\ Goto(c, "rmsub")
          /\ UNCHANGED <<mu, call, loc, log>>
       \/ ReturnUnlock(c, Err("loopia", "backend", <<>>))
    /\ UNCHANGED <<others, kind, s0, records, nextID, recordIDs, created>>

\* d.client.RemoveSubdomain
loopia_RemoveSubdomain(c) ==
    /\ kind = "loopia" /\ pc[c] = "rmsub"
    /\ \/ /\ DeleteByName(EffectiveFQDN(Tok(c)))
          /\ ReturnUnlock(c, NilErr)
       \/ /\ UNCHANGED <<records, nextID>>
          /\ ReturnUnlock(c, Err("loopia", "backend", <<>>))
    /\ UNCHANGED <<others, kind, s0, recordIDs, created>>

loopia(c) ==
    \/ loopia_AddTXTRecord(c) \/ loopia_PresentGetTXTRecords(c)
    \/ loopia_PresentStore(c) \/ loopia_CleanUpLookup(c)
    \/ loopia_RemoveTXTRecord(c) \/ loopia_CleanUpGetTXTRecords(c) \/ loopia_RemoveSubdomain(c)

\* ---------------------------------------------------------------- gandiv5
\* inProgressFQDNs is keyed by the challenge FQDN and holds {authZone, fieldName};
\* the mutex is taken first, with a deferred Unlock
\* d.client.AddTXTRecord under the mutex; its error is returned as it is
gandiv5_AddTXTRecord(c) ==
    /\ kind = "gandiv5" /\ pc[c] = "create"
    /\ \/ /\ CreateRecord(EffectiveFQDN(Tok(c)), Value(Tok(c)))
          /\ created' = [created EXCEPT ![Tok(c)] = nextID]
          /\ Goto(c, "p_store")
          /\ UNCHANGED <<mu, call, loc, log>>
       \/ /\ UNCHANGED <<records, nextID, created>>
          /\ ReturnUnlock(c, Err("", "backend", <<>>))
    /\ UNCHANGED <<others, kind, s0, recordIDs>>

gandiv5_PresentStore(c) ==
    /\ kind = "gandiv5" /\ pc[c] = "p_store"
    /\ recordIDs' = Put(recordIDs, EffectiveFQDN(Tok(c)), EffectiveFQDN(Tok(c)))
    /\ ReturnUnlock(c, NilErr)
    /\ UNCHANGED <<others, kind, s0, records, nextID, created>>

\* no entry for the FQDN: return nil; else read the entry and delete it
gandiv5_CleanUpLookup(c) ==
    /\ kind = "gandiv5" /\ pc[c] = "c_lookup"
    /\ IF EffectiveFQDN(Tok(c)) \in DOMAIN recordIDs
       THEN /\ loc' = [loc EXCEPT ![c].id = recordIDs[EffectiveFQDN(Tok(c))], ![c].ok = TRUE]
            /\ recordIDs' = Del(recordIDs, EffectiveFQDN(Tok(c)))
            /\ Goto(c, "delete")
            /\ UNCHANGED <<mu, call, log>>
       ELSE /\ ReturnUnlock(c, NilErr)
            /\ UNCHANGED recordIDs
    /\ UNCHANGED <<others, kind, s0, records, nextID, created>>

\* d.client.DeleteTXTRecord(zone, fieldName) removes the TXT records of the name
gandiv5_DeleteTXTRecord(c) ==
    /\ kind = "gandiv5" /\ pc[c] = "delete"
    /\ \/ /\ DeleteByName(loc[c].id)
          /\ ReturnUnlock(c, NilErr)
       \/ /\ UNCHANGED <<records, nextID>>
          /\ ReturnUnlock(c, Err("gandiv5", "backend", <<>>))
    /\ UNCHANGED <<others, kind, s0, recordIDs, created>>

gandiv5(c) ==
    \/ gandiv5_AddTXTRecord(c) \/ gandiv5_PresentStore(c)
    \/ gandiv5_CleanUpLookup(c) \/ gandiv5_DeleteTXTRecord(c)

\* ---------------------------------------------------------------- hostingde
\* recordIDs is keyed by the challenge FQDN; the backend keeps TXT content quoted
\* d.client.UpdateZone(RecordsToAdd): the response lists the zone's records
hostingde_PresentUpdateZone(c) ==
    /\ kind = "hostingde" /\ pc[c] = "create"
    /\ \/ /\ CreateRecord(EffectiveFQDN(Tok(c)), Quote(Value(Tok(c))))
          /\ created' = [created EXCEPT ![Tok(c)] = nextID]
          /\ loc' = [loc EXCEPT ![c].recs =
                        SortByID({r \in records' : /\ r.name = EffectiveFQDN(Tok(c))
                                                   /\ r.value = Quote(Value(Tok(c)))}),
                                ![c].i = 1]
          /\ Goto(c, "p_lock")
          /\ UNCHANGED <<call, log>>
       \/ /\ Return(c, Err("hostingde", "backend", <<>>))
          /\ UNCHANGED <<records, nextID, created>>
    /\ UNCHANGED <<others, kind, s0, recordIDs, mu>>

\* for _, record := range response.Records: each match is stored under the mutex
hostingde_PresentLock(c) ==
    /\ kind = "hostingde" /\ pc[c] = "p_lock"
    /\ \/ /\ loc[c].i <= Len(loc[c].recs)
          /\ Lock(c)
          /\ Goto(c, "p_store")
       \/ /\ loc[c].i > Len(loc[c].recs)
          /\ Goto(c, "p_check")
          /\ UNCHANGED mu
    /\ UNCHANGED <<others, kind, s0, records, nextID, recordIDs, call, loc, created, log>>

hostingde_PresentStore(c) ==
    /\ kind = "hostingde" /\ pc[c] = "p_store"
    /\ recordIDs' = Put(recordIDs, EffectiveFQDN(Tok(c)), loc[c].recs[loc[c].i].id)
    /\ Unlock(c)
    /\ loc' = [loc EXCEPT ![c].i = @ + 1]
    /\ Goto(c, "p_lock")
    /\ UNCHANGED <<others, kind, s0, records, nextID, call, created, log>>

\* if d.recordIDs[info.EffectiveFQDN] == "": the map is read with the mutex not
\* taken; while another caller writes the map the read is a data race and may
\* see either state
hostingde_PresentCheck(c) ==
    /\ kind = "hostingde" /\ pc[c] = "p_check"
    /\ \E seen \in BOOLEAN :
          /\ \/ seen = (EffectiveFQDN(Tok(c)) \in DOMAIN recordIDs)
             \/ \E o \in Callers \ {c} : pc[o] \in {"p_store", "c_forget"}
          /\ Return(c, IF seen THEN NilErr ELSE Err("hostingde", "noid", <<>>))
    /\ UNCHANGED <<others, kind, s0, records, nextID, recordIDs, mu, created>>

\* delete(d.recordIDs, info.EffectiveFQDN), before the backend is called
hostingde_CleanUpForget(c) ==
    /\ kind = "hostingde" /\ pc[c] = "c_forget"
    /\ recordIDs' = Del(recordIDs, EffectiveFQDN(Tok(c)))
    /\ Unlock(c)
    /\ Goto(c, "delete")
    /\ UNCHANGED <<others, kind, s0, records, nextID, call, loc, created, log>>

\* d.client.UpdateZone(RecordsToDelete): by name and quoted content
hostingde_CleanUpUpdateZone(c) ==
    /\ kind = "hostingde" /\ pc[c] = "delete"
    /\ \/ /\ DeleteByNameValue(EffectiveFQDN(Tok(c)), Quote(Value(Tok(c))))
          /\ Return(c, NilErr)
       \/ /\ UNCHANGED <<records, nextID>>
          /\ Return(c, Err("hostingde", "backend", <<>>))
    /\ UNCHANGED <<others, kind, s0, recordIDs, mu, created>>

hostingde(c) ==
    \/ hostingde_PresentUpdateZone(c) \/ hostingde_PresentLock(c) \/ hostingde_PresentStore(c)
    \/ hostingde_PresentCheck(c) \/ hostingde_CleanUpForget(c)
    \/ hostingde_CleanUpUpdateZone(c)

\* ---------------------------------------------------------------- godaddy, ionos, zonomi
\* Present reads the TXT records of the name and writes them back together with
\* the challenge record; nothing is held between the read and the write
ReadReplace == {"godaddy", "ionos", "zonomi"}

\* godaddy's CleanUp leaves a record named "empty" with no Data
EmptyName == -1
EmptyValue == Txt(-1, FALSE)

\* d.client.GetRecords (godaddy, ionos), d.client.FindTXTRecords (zonomi)
PresentGetRecords(c) ==
    /\ kind \in ReadReplace /\ pc[c] = "list" /\ call[c].op = "Present"
    /\ \/ /\ loc' = [loc EXCEPT ![c].recs = ListRecords(EffectiveFQDN(Tok(c)))]
          /\ Goto(c, "update")
          /\ UNCHANGED <<call, log>>
       \/ Return(c, Err(kind, "backend", <<>>))
    /\ UNCHANGED <<others, kind, s0, records, nextID, recordIDs, mu, created>>

\* d.client.UpdateTxtRecords (godaddy: the records read that have Data),
\* d.client.ReplaceRecords (ionos: content kept quoted), d.client.DoActions
\* (zonomi): the records of the name become the records read plus the new one
PresentReplaceRecords(c) ==
    /\ kind \in ReadReplace /\ pc[c] = "update" /\ call[c].op = "Present"
    /\ \/ /\ ReplaceByName(EffectiveFQDN(Tok(c)),
                {r \in Range(loc[c].recs) : kind = "godaddy" => r.value # EmptyValue}
                  \cup {Rec(nextID, EffectiveFQDN(Tok(c)),
                            IF kind = "ionos" THEN Quote(Value(Tok(c))) ELSE Value(Tok(c)))})
          /\ created' = [created EXCEPT ![Tok(c)] = nextID]
          /\ Return(c, NilErr)
       \/ /\ UNCHANGED <<records, nextID, created>>
          /\ Return(c, Err(kind, "backend", <<>>))
    /\ UNCHANGED <<others, kind, s0, recordIDs, mu>>

\* godaddy: GetRecords for the subdomain; CleanUp ends when there is none
godaddy_CleanUpGetRecords(c) ==
    /\ kind = "godaddy" /\ pc[c] = "list" /\ call[c].op = "CleanUp"
    /\ \/ /\ ListRecords(EffectiveFQDN(Tok(c))) = <<>>
          /\ Return(c, NilErr)
       \/ /\ ListRecords(EffectiveFQDN(Tok(c))) # <<>>
          /\ Goto(c, "listall")
          /\ UNCHANGED <<call, loc, log>>
       \/ Return(c, Err("godaddy", "backend", <<>>))
    /\ UNCHANGED <<others, kind, s0, records, nextID, recordIDs, mu, created>>

\* godaddy: GetRecords(ctx, authZone, "TXT", ""), all the TXT records of the zone
godaddy_CleanUpGetAllRecords(c) ==
    /\ kind = "godaddy" /\ pc[c] = "listall"
    /\ \/ /\ loc' = [loc EXCEPT ![c].recs = SortByID(records)]
          /\ Goto(c, "update")
          /\ UNCHANGED <<call, log>>
       \/ Return(c, Err("godaddy", "backend", <<>>))
    /\ UNCHANGED <<others, kind, s0, records, nextID, recordIDs, mu, created>>

\* godaddy: recordsKeep, every record whose Data is neither the challenge value
\* nor empty, or one "empty" record; it replaces the TXT records of the zone
godaddy_CleanUpUpdateTxtRecords(c) ==
    /\ kind = "godaddy" /\ pc[c] = "update" /\ call[c].op = "CleanUp"
    /\ \/ /\ LET keep == {r \in Range(loc[c].recs) :
                             r.value # Value(Tok(c)) /\ r.value # EmptyValue}
             IN ReplaceAll(IF keep = {} THEN {Rec(nextID, EmptyName, EmptyValue)}
                           ELSE keep)
          /\ Return(c, NilErr)
       \/ /\ UNCHANGED <<records, nextID>>
          /\ Return(c, Err("godaddy", "backend", <<>>))
    /\ UNCHANGED <<others, kind, s0, recordIDs, mu, created>>

\* ionos: GetRecords, then the first record with the name and strconv.Quote(value)
ionos_CleanUpGetRecords(c) ==
    /\ kind = "ionos" /\ pc[c] = "list" /\ call[c].op = "CleanUp"
    /\ \/ LET hits == {r \in records : /\ r.name = EffectiveFQDN(Tok(c))
                                       /\ r.value = Quote(Value(Tok(c)))}
          IN IF hits # {}
             THEN /\ loc' = [loc EXCEPT ![c].id = SortByID(hits)[1].id]
                  /\ Goto(c, "delete")
                  /\ UNCHANGED <<call, log>>
             ELSE Return(c, Err("ionos", "notfound", <<>>))
       \/ Return(c, Err("ionos", "backend", <<>>))
    /\ UNCHANGED <<others, kind, s0, records, nextID, recordIDs, mu, created>>

\* ionos: d.client.RemoveRecord(ctx, zone.ID, record.ID)
ionos_RemoveRecord(c) ==
    /\ kind = "ionos" /\ pc[c] = "delete"
    /\ \/ /\ DeleteRecord(loc[c].id)
          /\ Return(c, NilErr)
       \/ /\ UNCHANGED <<records, nextID>>
          /\ Return(c, Err("ionos", "backend", <<loc[c].id>>))
    /\ UNCHANGED <<others, kind, s0, recordIDs, mu, created>>

\* zonomi: DoActions(NewDeleteRecordAction(fqdn, value))
zonomi_CleanUpDoActions(c) ==
    /\ kind = "zonomi" /\ pc[c] = "delete"
    /\ \/ /\ DeleteByNameValue(EffectiveFQDN(Tok(c)), Value(Tok(c)))
          /\ Return(c, NilErr)
       \/ /\ UNCHANGED <<records, nextID>>
          /\ Return(c, Err("zonomi", "backend", <<>>))
    /\ UNCHANGED <<others, kind, s0, recordIDs, mu, created>>

readReplace(c) ==
    \/ PresentGetRecords(c) \/ PresentReplaceRecords(c)
    \/ godaddy_CleanUpGetRecords(c) \/ godaddy_CleanUpGetAllRecords(c)
    \/ godaddy_CleanUpUpdateTxtRecords(c)
    \/ ionos_CleanUpGetRecords(c) \/ ionos_RemoveRecord(c)
    \/ zonomi_CleanUpDoActions(c)

\* ---------------------------------------------------------------- versio
\* no lifecycle map: dnsEntriesMu is taken (and released by defer) around the
\* read and the write of the zone's whole record list
\* d.client.GetDomain(ctx, dns01.UnFqdn(authZone))
versio_GetDomain(c) ==
    /\ kind = "versio" /\ pc[c] = "list"
    /\ \/ /\ loc' = [loc EXCEPT ![c].recs = SortByID(records)]
          /\ Goto(c, "update")
          /\ UNCHANGED <<mu, call, log>>
       \/ ReturnUnlock(c, Err("versio", "backend", <<>>))
    /\ UNCHANGED <<others, kind, s0, records, nextID, recordIDs, created>>

\* d.client.UpdateDomain(ctx, zoneName, msg): Present appends the record with
\* the quoted value, CleanUp keeps the records whose Name is not the FQDN
versio_UpdateDomain(c) ==
    /\ kind = "versio" /\ pc[c] = "update"
    /\ \/ /\ IF call[c].op = "Present"
             THEN /\ ReplaceAll(Range(loc[c].recs)
                        \cup {Rec(nextID, EffectiveFQDN(Tok(c)), Quote(Value(Tok(c))))})
                  /\ created' = [created EXCEPT ![Tok(c)] = nextID]
             ELSE /\ ReplaceAll({r \in Range(loc[c].recs) : r.name # EffectiveFQDN(Tok(c))})
                  /\ UNCHANGED created
          /\ ReturnUnlock(c, NilErr)
       \/ /\ UNCHANGED <<records, nextID, created>>
          /\ ReturnUnlock(c, Err("versio", "backend", <<>>))
    /\ UNCHANGED <<others, kind, s0, recordIDs>>

versio(c) == versio_GetDomain(c) \/ versio_UpdateDomain(c)

\* ---------------------------------------------------------------- ultradns
\* recordService.Read(rrSetKey): its error is dropped; a 200 answer selects
\* Update, anything else Create
ultradns_Read(c) ==
    /\ kind = "ultradns" /\ pc[c] = "read"
    /\ \/ /\ ListRecords(EffectiveFQDN(Tok(c))) # <<>>
          /\ Goto(c, "update")
       \/ Goto(c, "create")
    /\ UNCHANGED <<others, kind, s0, records, nextID, recordIDs, mu, call, loc, created, log>>

\* recordService.Update(rrSetKey, rrSetData): the record set of the name
\* becomes RData = [value]
ultradns_Update(c) ==
    /\ kind = "ultradns" /\ pc[c] = "update"
    /\ \/ /\ ReplaceByName(EffectiveFQDN(Tok(c)),
                           {Rec(nextID, EffectiveFQDN(Tok(c)), Value(Tok(c)))})
          /\ created' = [created EXCEPT ![Tok(c)] = nextID]
          /\ Return(c, NilErr)
       \/ /\ UNCHANGED <<records, nextID, created>>
          /\ Return(c, Err("ultradns", "backend", <<>>))
    /\ UNCHANGED <<others, kind, s0, recordIDs, mu>>

\* recordService.Create(rrSetKey, rrSetData): refused when the set exists
ultradns_Create(c) ==
    /\ kind = "ultradns" /\ pc[c] = "create"
    /\ \/ /\ ListRecords(EffectiveFQDN(Tok(c))) = <<>>
          /\ CreateRecord(EffectiveFQDN(Tok(c)), Value(Tok(c)))
          /\ created' = [created EXCEPT ![Tok(c)] = nextID]
          /\ Return(c, NilErr)
       \/ /\ UNCHANGED <<records, nextID, created>>
          /\ Return(c, Err("ultradns", "backend", <<>>))
    /\ UNCHANGED <<others, kind, s0, recordIDs, mu>>

\* recordService.Delete(rrSetKey): the whole record set of the name
ultradns_Delete(c) ==
    /\ kind = "ultradns" /\ pc[c] = "delete"
    /\ \/ /\ DeleteByName(EffectiveFQDN(Tok(c)))
          /\ Return(c, NilErr)
       \/ /\ UNCHANGED <<records, nextID>>
          /\ Return(c, Err("ultradns", "backend", <<>>))
    /\ UNCHANGED <<others, kind, s0, recordIDs, mu, created>>

ultradns(c) ==
    ultradns_Read(c) \/ ultradns_Update(c) \/ ultradns_Create(c) \/ ultradns_Delete(c)

\* ---------------------------------------------------------------- linode, epik, cloudns, vscale, inwx, vultr
\* Present makes one record; CleanUp lists the records and deletes every one
\* that matches, one backend call each
StopAtFailure == {"linode", "epik", "cloudns"}
KeepLastErr == {"vscale", "inwx"}

\* the provider name the error is wrapped in: linode returns the client's error
\* as it is, vultr's joined message has no prefix, cloudns writes "ClouDNS"
Prefix(k) == IF k = "linode" THEN "" ELSE IF k = "cloudns" THEN "ClouDNS" ELSE k

\* the records CleanUp deletes: linode and epik compare name and value, the
\* others the name only
Matching(c) ==
    {r \in records : /\ r.name = EffectiveFQDN(Tok(c))
                     /\ kind \in {"linode", "epik"} => r.value = Value(Tok(c))}

\* inwx: d.client.Account.Login() and d.twoFactorAuth(info)
inwx_Login(c) ==
    /\ kind = "inwx" /\ pc[c] = "login"
    /\ \/ /\ Goto(c, IF call[c].op = "Present" THEN "create" ELSE "list")
          /\ UNCHANGED <<call, loc, log>>
       \/ Return(c, Err("inwx", "login", <<>>))
    /\ UNCHANGED <<others, kind, s0, records, nextID, recordIDs, mu, created>>

\* CreateDomainRecord, CreateHostRecord, AddTxtRecord, AddRecord,
\* Nameservers.CreateRecord, DomainRecord.Create: vultr sends the value in
\* quotes, inwx takes the answer "Object exists" as success, cloudns goes on to
\* waitNameservers
CreateTXT(c) ==
    /\ kind \in StopAtFailure \cup KeepLastErr \cup {"vultr"} /\ pc[c] = "create"
    /\ \/ /\ kind = "inwx" => \A r \in Matching(c) : r.value # Value(Tok(c))
          /\ CreateRecord(EffectiveFQDN(Tok(c)),
                          IF kind = "vultr" THEN Quote(Value(Tok(c))) ELSE Value(Tok(c)))
          /\ created' = [created EXCEPT ![Tok(c)] = nextID]
          /\ IF kind = "cloudns"
             THEN Goto(c, "wait") /\ UNCHANGED <<call, loc, log>>
             ELSE Return(c, NilErr)
       \/ /\ kind = "inwx" /\ \E r \in Matching(c) : r.value = Value(Tok(c))
          /\ UNCHANGED <<records, nextID, created>>
          /\ Return(c, NilErr)
       \/ /\ UNCHANGED <<records, nextID, created>>
          /\ Return(c, Err(Prefix(kind), "backend", <<>>))
    /\ UNCHANGED <<others, kind, s0, recordIDs, mu>>

\* cloudns: wait.For around GetUpdateStatus, synced or its error or timeout
cloudns_waitNameservers(c) ==
    /\ kind = "cloudns" /\ pc[c] = "wait"
    /\ \/ Return(c, NilErr)
       \/ Return(c, Err("", "wait", <<>>))
    /\ UNCHANGED <<others, kind, s0, records, nextID, recordIDs, mu, created>>

\* ListDomainRecords, GetDNSRecords, ListTxtRecords, ListRecords,
\* Nameservers.Info, findTxtRecords: the matching records in the order listed
ListTXT(c) ==
    /\ kind \in StopAtFailure \cup KeepLastErr \cup {"vultr"} /\ pc[c] = "list"
    /\ \/ IF Matching(c) = {}
          THEN Return(c, NilErr)
          ELSE /\ loc' = [loc EXCEPT ![c].recs = SortByID(Matching(c)), ![c].i = 1]
               /\ Goto(c, "delete")
               /\ UNCHANGED <<call, log>>
       \/ Return(c, Err(Prefix(kind), "backend", <<>>))
    /\ UNCHANGED <<others, kind, s0, records, nextID, recordIDs, mu, created>>

\* one iteration of the delete loop for the record loc.recs[loc.i]: the backend
\* deletes it or refuses; stop tells whether a refusal ends the loop and e is
\* the error the handler holds after a refusal
DeleteIteration(c, deleted, stop, e) ==
    LET id == loc[c].recs[loc[c].i].id
        tried == Append(loc[c].tried, id)
        failed == IF deleted THEN loc[c].failed ELSE Append(loc[c].failed, id)
        held == IF deleted THEN loc[c].err ELSE e
    IN /\ IF deleted THEN DeleteRecord(id) ELSE UNCHANGED <<records, nextID>>
       /\ IF (~deleted /\ stop) \/ loc[c].i = Len(loc[c].recs)
          THEN ReturnWith(c, held, tried, failed)
          ELSE /\ loc' = [loc EXCEPT ![c].i = @ + 1, ![c].tried = tried,
                                     ![c].failed = failed, ![c].err = held]
               /\ UNCHANGED <<pc, call, log>>
       /\ UNCHANGED <<others, kind, s0, recordIDs, mu, created>>

\* linode, epik, cloudns: if err != nil { return ... } inside the loop
DeleteOrReturn(c) ==
    /\ kind \in StopAtFailure /\ pc[c] = "delete"
    /\ \E deleted \in BOOLEAN :
          DeleteIteration(c, deleted, TRUE,
                          Err(Prefix(kind), "backend", <<loc[c].recs[loc[c].i].id>>))

\* the loop as it would be if the first error were the one kept
DeleteKeepingFirstErr(c) ==
    /\ kind \in KeepLastErr /\ pc[c] = "delete"
    /\ \E deleted \in BOOLEAN :
          DeleteIteration(c, deleted, FALSE,
                          IF loc[c].err = NilErr
                          THEN Err(Prefix(kind), "backend", <<loc[c].recs[loc[c].i].id>>)
                          ELSE loc[c].err)

\* vscale, inwx: lastErr = fmt.Errorf("vscale: %w", err), the loop goes on and
\* CleanUp returns lastErr
DeleteKeepingLastErr(c) ==
    /\ kind \in KeepLastErr /\ pc[c] = "delete"
    /\ \E deleted \in BOOLEAN :
          DeleteIteration(c, deleted, FALSE,
                          Err(Prefix(kind), "backend", <<loc[c].recs[loc[c].i].id>>))

\* vultr: allErr = append(allErr, err.Error()), the loop goes on and CleanUp
\* returns errors.New(strings.Join(allErr, ": "))
vultr_Delete(c) ==
    /\ kind = "vultr" /\ pc[c] = "delete"
    /\ \E deleted \in BOOLEAN :
          DeleteIteration(c, deleted, FALSE,
                          Err("", "backend",
                              Append(loc[c].err[3], loc[c].recs[loc[c].i].id)))

deleteMatching(c) ==
    \/ inwx_Login(c) \/ CreateTXT(c) \/ cloudns_waitNameservers(c) \/ ListTXT(c)
    \/ DeleteOrReturn(c) \/ DeleteKeepingLastErr(c) \/ vultr_Delete(c)

\* ---------------------------------------------------------------- positions
\* labels at which a backend network call is in progress
NetworkLabels == {"create", "delete", "list", "listall", "rmsub", "update", "read",
                  "login", "wait"}
\* labels at which the lifecycle map is read or written
MapLabels == {"p_store", "c_lookup", "c_forget", "p_check"}

\* ---------------------------------------------------------------- specifications
\* the record sets an account can hold when the adapter is constructed: another
\* TXT record at the challenge name of tokens 1 and 2, and one elsewhere in the zone
InitialRecords == {Rec(-1, EffectiveFQDN(1), OtherValue), Rec(-2, ZoneApex, OtherValue)}

InitWith(kinds, sets) ==
    /\ kind \in kinds
    /\ s0 \in sets
    /\ records = s0
    /\ nextID = 1
    /\ recordIDs = <<>>
    /\ mu = 0
    /\ pc = [c \in Callers |-> "idle"]
    /\ call = [c \in Callers |-> NoCall]
    /\ loc = [c \in Callers |-> NoLoc]
    /\ created = [t \in Tokens |-> 0]
    /\ log = <<>>
    /\ poll = None /\ lookup = None /\ input = None /\ built = None
    /\ tfa = None /\ user = None

\* the adapters with a lifecycle map
TrackedKinds == IDTracked \cup {"loopia", "gandiv5", "hostingde"}

InitTracked == InitWith(TrackedKinds, {{}, {Rec(-1, EffectiveFQDN(1), OtherValue)}})

NextTracked ==
    \E c \in Callers :
        \/ StartCall(c)
        \/ Resolve(c)
        \/ MutexLock(c)
        \/ idTracked(c)
        \/ loopia(c)
        \/ gandiv5(c)
        \/ hostingde(c)

SpecTracked == InitTracked /\ [][NextTracked]_vars

\* the adapters that manage the challenge record through the record set of its
\* name or of the zone
ReplaceKinds == ReadReplace \cup {"versio", "ultradns"}

InitReplace == InitWith(ReplaceKinds, SUBSET InitialRecords)

NextReplace ==
    \E c \in Callers :
        \/ StartCall(c)
        \/ Resolve(c)
        \/ MutexLock(c)
        \/ readReplace(c)
        \/ versio(c)
        \/ ultradns(c)

SpecReplace == InitReplace /\ [][NextReplace]_vars

\* the adapters whose CleanUp deletes every matching record, called by one
\* caller, one call after the other; records left by earlier runs carry the
\* challenge's name and value
StaleRecords == {Rec(-1, EffectiveFQDN(1), Value(1)), Rec(-2, EffectiveFQDN(1), Value(1))}
FirstCaller == CHOOSE c \in Callers : \A d \in Callers : c <= d

InitMulti == InitWith(StopAtFailure \cup KeepLastErr \cup {"vultr"}, {{}, StaleRecords})

NextMulti ==
    \/ StartCall(FirstCaller)
    \/ Resolve(FirstCaller)
    \/ deleteMatching(FirstCaller)

SpecMulti == InitMulti /\ [][NextMulti]_vars

\* ---------------------------------------------------------------- infomaniak
\* Present: GetDomainByName, domainIDs[token] = ikDomain.ID, ExtractSubDomain,
\* CreateDNSRecord, recordIDs[token] = recordID
infomaniak_Present(c) ==
    /\ kind = "infomaniak" /\ call[c].op = "Present"
    /\ \/ /\ pc[c] = "resolve"
          /\ \/ /\ recordIDs' = Put(recordIDs, <<"domainIDs", Tok(c)>>, ZoneApex)
                /\ Goto(c, "create")
                /\ UNCHANGED <<call, loc, log>>
             \/ /\ Return(c, Err("infomaniak", "zone", <<>>))
                /\ UNCHANGED recordIDs
          /\ UNCHANGED <<records, nextID, created>>
       \/ /\ pc[c] = "create"
          /\ \/ /\ CreateRecord(EffectiveFQDN(Tok(c)), Value(Tok(c)))
                /\ created' = [created EXCEPT ![Tok(c)] = nextID]
                /\ recordIDs' = Put(recordIDs, <<"recordIDs", Tok(c)>>, nextID)
                /\ Return(c, NilErr)
             \/ /\ \E what \in {"subdomain", "backend"} : Return(c, Err("infomaniak", what, <<>>))
                /\ UNCHANGED <<records, nextID, created, recordIDs>>
    /\ UNCHANGED <<others, kind, s0, mu>>

\* CleanUp: both map lookups, DeleteDNSRecord, then both entries are deleted
infomaniak_CleanUp(c) ==
    /\ kind = "infomaniak" /\ call[c].op = "CleanUp"
    /\ \/ /\ pc[c] = "resolve"
          /\ IF {<<"recordIDs", Tok(c)>>, <<"domainIDs", Tok(c)>>} \subseteq DOMAIN recordIDs
             THEN /\ loc' = [loc EXCEPT ![c].id = recordIDs[<<"recordIDs", Tok(c)>>], ![c].ok = TRUE]
                  /\ Goto(c, "delete")
                  /\ UNCHANGED <<call, log>>
             ELSE Return(c, Err("infomaniak", "unknown", <<>>))
          /\ UNCHANGED <<records, nextID, recordIDs>>
       \/ /\ pc[c] = "delete"
          /\ \/ /\ DeleteRecord(loc[c].id)
                /\ recordIDs' = Del(Del(recordIDs, <<"recordIDs", Tok(c)>>), <<"domainIDs", Tok(c)>>)
                /\ Return(c, NilErr)
             \/ /\ Return(c, Err("infomaniak", "backend", <<>>))
                /\ UNCHANGED <<records, nextID, recordIDs>>
    /\ UNCHANGED <<others, kind, s0, mu, created>>

SpecInfomaniak ==
    /\ InitWith({"infomaniak"}, {{}, {Rec(-1, EffectiveFQDN(1), OtherValue)}})
    /\ [][\E c \in Callers : StartCall(c) \/ infomaniak_Present(c) \/ infomaniak_CleanUp(c)]_vars

\* ---------------------------------------------------------------- inwx: two-factor authentication
\* now.Truncate(30 * time.Second): the TOTP period, in seconds
TotpPeriod == 30
\* the clock moves in steps of ClockStep seconds up to MaxNow
ClockStep == 15
MaxNow == 75

\* computeSleep(now): the time left of the period of the previous unlock
computeSleep(now) ==
    IF tfa.previousUnlock = <<>> THEN 0
    ELSE IF tfa.previousUnlock[1] + TotpPeriod > now
         THEN tfa.previousUnlock[1] + TotpPeriod - now
         ELSE 0

\* Login answered that the account asks for a TAN (info.TFA = "GOOGLE-AUTH"):
\* twoFactorAuth up to time.Sleep(sleep); no lock is taken
inwx_twoFactorAuth(c) ==
    /\ kind = "inwx" /\ pc[c] = "login"
    /\ IF tfa.sharedSecret
       THEN /\ tfa' = [tfa EXCEPT !.wake[c] = tfa.now + computeSleep(tfa.now)]
            /\ Goto(c, "tfa_sleep")
            /\ UNCHANGED <<call, loc, log>>
       ELSE /\ Return(c, Err("inwx", "secret", <<>>))
            /\ UNCHANGED tfa
    /\ UNCHANGED <<poll, lookup, input, built, user, kind, s0, records, nextID,
                   recordIDs, mu, created>>

\* the sleep is over: now := time.Now(), the TAN of now's period,
\* d.previousUnlock = now.Truncate(30s), d.client.Account.Unlock(tan)
inwx_Unlock(c) ==
    /\ kind = "inwx" /\ pc[c] = "tfa_sleep" /\ tfa.now >= tfa.wake[c]
    /\ tfa' = [tfa EXCEPT !.previousUnlock = <<tfa.now - (tfa.now % TotpPeriod)>>,
                          !.unlocks = Append(@, tfa.now - (tfa.now % TotpPeriod))]
    /\ \/ /\ Goto(c, IF call[c].op = "Present" THEN "create" ELSE "list")
          /\ UNCHANGED <<call, loc, log>>
       \/ Return(c, Err("inwx", "unlock", <<>>))
    /\ UNCHANGED <<poll, lookup, input, built, user, kind, s0, records, nextID,
                   recordIDs, mu, created>>

\* time passes
tfa_Tick ==
    /\ kind = "inwx" /\ tfa.now < MaxNow
    /\ tfa' = [tfa EXCEPT !.now = @ + ClockStep]
    /\ UNCHANGED <<poll, lookup, input, built, user, kind, s0, records, nextID,
                   recordIDs, mu, pc, call, loc, created, log>>

\* an inwx adapter as NewDNSProviderConfig leaves it (previousUnlock is the zero
\* time), with or without a shared secret in its config
InitTfa ==
    /\ kind = "inwx"
    /\ s0 = {} /\ records = s0 /\ nextID = 1
    /\ recordIDs = <<>> /\ mu = 0
    /\ pc = [c \in Callers |-> "idle"]
    /\ call = [c \in Callers |-> NoCall]
    /\ loc = [c \in Callers |-> NoLoc]
    /\ created = [t \in Tokens |-> 0]
    /\ log = <<>>
    /\ poll = None /\ lookup = None /\ input = None /\ built = None /\ user = None
    /\ \E secret \in BOOLEAN :
          tfa = [now |-> TotpPeriod, previousUnlock |-> <<>>, unlocks |-> <<>>,
                 wake |-> [c \in Callers |-> 0], sharedSecret |-> secret]

SpecTfa ==
    /\ InitTfa
    /\ [][\/ \E c \in Callers :
                \/ StartCall(c) \/ Resolve(c) \/ inwx_Login(c)
                \/ inwx_twoFactorAuth(c) \/ inwx_Unlock(c)
                \/ CreateTXT(c) \/ ListTXT(c) \/ DeleteKeepingLastErr(c)
          \/ tfa_Tick]_vars

\* ---------------------------------------------------------------- LegoUser
MaxUserCalls == 3

\* ConvertKeyType(expr): the EncType as a certcrypto.KeyType, RSA2048 for any
\* other string
ConvertKeyType(expr) ==
    CASE expr = "EC256" -> "P256"
      [] expr = "EC384" -> "P384"
      [] expr = "RSA2048" -> "2048"
      [] expr = "RSA3072" -> "3072"
      [] expr = "RSA4096" -> "4096"
      [] expr = "RSA8192" -> "8192"
      [] OTHER -> "2048"

\* RegisterNewUser: GeneratePrivateKey when the account has no key, NewClient(EC384)
\* when no client is cached, Registration.Register, the registration stored
RegisterNewUser ==
    /\ user.calls < MaxUserCalls
    /\ \E failure \in {"none", "key", "client", "register"} :
          /\ failure = "key" => ~user.privateKey
          /\ failure = "client" => user.client = "nil"
          /\ user' = [user EXCEPT
                !.calls = @ + 1,
                !.privateKey = @ \/ failure # "key",
                !.client = IF @ = "nil" /\ failure \notin {"key", "client"}
                           THEN ConvertKeyType("EC384") ELSE @,
                !.registered = @ \/ failure = "none"]
    /\ UNCHANGED <<tfa, kind, s0, records, nextID, recordIDs, mu, pc, call, loc, created,
                   log, poll, lookup, input, built>>

\* ObtainCertificate(certCfg, provider): NewClient(certCfg.EncType) when no client
\* is cached, SetDNS01Provider, Certificate.Obtain with l.Client
ObtainCertificate ==
    /\ user.calls < MaxUserCalls
    /\ \E EncType \in {"EC256", "EC384", "RSA2048", "RSA3072", "RSA4096", "RSA8192"},
          failure \in {"none", "client", "obtain"} :
          /\ failure = "client" => user.client = "nil"
          /\ LET client == IF user.client = "nil" /\ failure # "client"
                           THEN ConvertKeyType(EncType) ELSE user.client
             IN user' = [user EXCEPT
                   !.calls = @ + 1,
                   !.client = client,
                   !.requests = IF failure = "client" THEN @
                                ELSE Append(@, [EncType |-> EncType, KeyType |-> client,
                                                issued |-> failure = "none"])]
    /\ UNCHANGED <<tfa, kind, s0, records, nextID, recordIDs, mu, pc, call, loc, created,
                   log, poll, lookup, input, built>>

\* NewUserFromAccount(acc): the account has a private key or none, no client yet
InitUser ==
    /\ kind = "none"
    /\ s0 = {} /\ records = s0 /\ nextID = 1
    /\ recordIDs = <<>> /\ mu = 0
    /\ pc = [c \in Callers |-> "idle"]
    /\ call = [c \in Callers |-> NoCall]
    /\ loc = [c \in Callers |-> NoLoc]
    /\ created = [t \in Tokens |-> 0]
    /\ log = <<>>
    /\ poll = None /\ lookup = None /\ input = None /\ built = None /\ tfa = None
    /\ \E key \in BOOLEAN :
          user = [privateKey |-> key, client |-> "nil", registered |-> FALSE,
                  calls |-> 0, requests |-> <<>>]

SpecUser == InitUser /\ [][RegisterNewUser \/ ObtainCertificate]_vars

\* ---------------------------------------------------------------- histories
Quiet == InFlight = {}
OnlyToken(t) == \A i \in 1..Len(log) : log[i].token = t
LogOf(t) == SelectSeq(log, LAMBDA e : e.token = t)
Last(t) == LogOf(t)[Len(LogOf(t))]
Succeeded(e, op) == e.op = op /\ e.err = NilErr

\* a run of a correct caller in which every Present succeeds: one Present per
\* token, and CleanUp only for tokens whose Present has returned
DistinctPresents ==
    /\ \A i, j \in 1..Len(log) :
          log[i].op = "Present" =>
              /\ log[i].err = NilErr
              /\ (j # i /\ log[j].op = "Present") => log[j].token # log[i].token
    /\ \A i \in 1..Len(log) :
          log[i].op = "CleanUp" =>
              \E j \in 1..(i - 1) : log[j].op = "Present" /\ log[j].token = log[i].token
    /\ \A c \in Callers :
          call[c].op = "CleanUp" =>
              \E j \in 1..Len(log) : log[j].op = "Present" /\ log[j].token = call[c].token

\* ---------------------------------------------------------------- claims
\* C1: for every adapter with a lifecycle map and every token t, after
\* Present(d,t,k) returns success the map holds an entry for t, and after a
\* following CleanUp(d,t,k) returns success the map holds no entry for t.
C1_AbsentPresentAbsent ==
    \A t \in Tokens :
        (Quiet /\ OnlyToken(t) /\ Len(log) >= 1) =>
            /\ Succeeded(log[Len(log)], "Present") => HasEntry(t)
            /\ (/\ Len(log) >= 2
                /\ Succeeded(log[Len(log) - 1], "Present")
                /\ Succeeded(log[Len(log)], "CleanUp")) => ~HasEntry(t)

\* C2: when CleanUp finds an entry for token t and calls the backend delete,
\* the entry for t is removed whether the backend delete succeeds or fails
\* (stated for the adapters whose CleanUp has a statement that removes it).
C2_EntryRemovedWhateverDeleteDoes ==
    \A t \in Tokens :
        (/\ kind \in {"vercel", "websupport"}
         /\ Quiet /\ OnlyToken(t) /\ Len(log) >= 1
         /\ log[Len(log)].op = "CleanUp"
         /\ log[Len(log)].hadEntry
         /\ log[Len(log)].err[2] \in {"nil", "backend", "status"}) => ~HasEntry(t)

\* C3: for every adapter that needs tracked state to delete a record, CleanUp
\* for a token with no lifecycle entry returns an unknown-record error rather
\* than succeeding (a CleanUp whose zone lookup fails first returns that error).
C3_UnknownTokenIsAnError ==
    \A i \in 1..Len(log) :
        (/\ kind \in IDTracked \cup {"loopia", "gandiv5"}
         /\ log[i].op = "CleanUp"
         /\ ~log[i].hadEntry
         /\ log[i].err[2] # "zone") => log[i].err[2] = "unknown"

\* C4: when Present calls with distinct tokens all succeed, also for challenges
\* that share one FQDN, each token's entry stays the record created for that
\* token until its own CleanUp, that CleanUp deletes exactly that record, and no
\* call made for another token overwrites or removes the entry or the record.
C4_NoCrossTokenInterference ==
    DistinctPresents =>
        \A t \in Tokens :
            (LogOf(t) # <<>> /\ ~Busy(t)) =>
                /\ Succeeded(Last(t), "Present") =>
                      /\ HasEntry(t)
                      /\ kind # "gandiv5" => recordIDs[KeyOf(t)] = created[t]
                      /\ \E r \in records : r.id = created[t]
                /\ (Succeeded(Last(t), "CleanUp") /\ Last(t).hadEntry) =>
                      \A r \in records : r.id # created[t]

\* C5: when Present calls with distinct tokens for names in the same zone overlap
\* on one instance and all return success, the backend afterwards holds every one
\* of their TXT values (stated for the adapters whose Present reads the record
\* list and writes it back).
C5_NoPresentLost ==
    (/\ kind \in ReadReplace
     /\ DistinctPresents
     /\ \A i \in 1..Len(log) : log[i].op = "Present"
     /\ \A c \in Callers : call[c].op # "CleanUp") =>
        \A t \in Tokens :
            (LogOf(t) # <<>> /\ Succeeded(Last(t), "Present")) =>
                \E r \in records : r.name = EffectiveFQDN(t) /\ r.value.v = Value(t).v

\* C6: no adapter holds the mutex that guards its lifecycle map while a backend
\* network call made by Present or CleanUp is in progress.
C6_MutexNotHeldAcrossNetwork ==
    \A c \in Callers : pc[c] \in NetworkLabels => mu # c

\* C7: every read and every write of the lifecycle map by Present or CleanUp
\* happens while the adapter's mutex is held.
C7_MapAccessUnderMutex ==
    \A c \in Callers : pc[c] \in MapLabels => mu = c

\* C8: starting from a record set S, a successful Present followed by a
\* successful CleanUp for the same token leaves the backend with exactly S,
\* also when S holds other TXT records at the challenge name.
C8_RoundTripRestoresRecords ==
    (/\ Quiet
     /\ Len(log) = 2
     /\ Succeeded(log[1], "Present")
     /\ Succeeded(log[2], "CleanUp")
     /\ log[1].token = log[2].token) =>
        {<<r.name, r.value>> : r \in records} = {<<r.name, r.value>> : r \in s0}

\* C9: when CleanUp finds several matching records and one deletion fails, the
\* deletion of every remaining match is still attempted.
C9_RemainingMatchesAttempted ==
    \A i \in 1..Len(log) :
        (log[i].op = "CleanUp" /\ log[i].failed # <<>>) =>
            log[i].tried = [j \in 1..Len(log[i].matched) |-> log[i].matched[j].id]

C11_NoDuplicateRecord ==
    \A t \in Tokens :
        (/\ s0 = {}
         /\ Quiet /\ OnlyToken(t) /\ Len(log) = 2
         /\ Succeeded(log[1], "Present")
         /\ Succeeded(log[2], "Present")) =>
            Cardinality({r \in records : /\ r.name = EffectiveFQDN(t)
                                         /\ r.value.v = Value(t).v}) = 1

\* ---------------------------------------------------------------- construction results
\* the effective settings of an adapter: durations are <<count, unit>>
Config(ttl, propagationTimeout, pollingInterval, httpTimeout, endpoint) ==
    [ttl |-> ttl, propagationTimeout |-> propagationTimeout,
     pollingInterval |-> pollingInterval, httpTimeout |-> httpTimeout,
     endpoint |-> endpoint]

\* what a constructor returns: (adapter, nil), (nil, error) or a panic
NotBuilt == [err |-> "notbuilt"]
Built(config) == [err |-> "nil", config |-> config]
Failed(e) == [err |-> e]

\* the handlers and the backend at rest, as after construction
AtRest ==
    /\ s0 = {} /\ records = {} /\ nextID = 1
    /\ recordIDs = <<>> /\ mu = 0
    /\ pc = [c \in Callers |-> "idle"]
    /\ call = [c \in Callers |-> NoCall]
    /\ loc = [c \in Callers |-> NoLoc]
    /\ created = [t \in Tokens |-> 0]
    /\ log = <<>>

\* ---------------------------------------------------------------- waiting for the backend
\* cloudns.Present ends with waitNameservers; time is counted in seconds from
\* the start of the wait
MaxTimeout == 3
MaxInterval == 2
MaxCallTime == 2
MaxWaits == 2

\* d.config of the adapter the handlers run on
TheConfig == built.env.config

NoPoll == [synced |-> FALSE, timeout |-> 0, interval |-> 0, elapsed |-> 0,
           polls |-> 0, sleeps |-> <<>>, lastErr |-> FALSE, outcome |-> "none",
           returned |-> 0]

\* the parameters handed around in the mutant of waitNameservers
waitNameserversSwapped(c) ==
    /\ kind = "cloudns" /\ pc[c] = "wait"
    /\ poll' = [NoPoll EXCEPT !.synced = poll.synced,
                              !.timeout = TheConfig.pollingInterval[1],
                              !.interval = TheConfig.propagationTimeout[1]]
    /\ Goto(c, "w_check")
    /\ UNCHANGED <<tfa, user, kind, s0, records, nextID, recordIDs, mu, call, loc, created, log,
                   lookup, input, built>>

\* wait.For("Nameserver sync on "+domain, d.config.PropagationTimeout,
\*          d.config.PollingInterval, func() (bool, error) {...})
waitNameservers(c) ==
    /\ kind = "cloudns" /\ pc[c] = "wait"
    /\ poll' = [NoPoll EXCEPT !.synced = poll.synced,
                              !.timeout = TheConfig.propagationTimeout[1],
                              !.interval = TheConfig.pollingInterval[1]]
    /\ Goto(c, "w_check")
    /\ UNCHANGED <<tfa, user, kind, s0, records, nextID, recordIDs, mu, call, loc, created, log,
                   lookup, input, built>>

\* the wait returns e to the handler, which returns it to its caller
WaitReturn(c, outcome, e) ==
    /\ poll' = [poll EXCEPT !.outcome = outcome, !.returned = Len(log) + 1]
    /\ Return(c, e)

\* the head of the wait loop: once the timeout has elapsed the wait ends with a
\* terminal error, else the readiness function is called
wait_TimeUp(c) ==
    /\ pc[c] = "w_check"
    /\ IF poll.elapsed >= poll.timeout
       THEN WaitReturn(c, "timeout", Err("", "wait", <<>>))
       ELSE Goto(c, "w_call") /\ UNCHANGED <<call, loc, log, poll>>
    /\ UNCHANGED <<tfa, user, kind, s0, records, nextID, recordIDs, mu, created, lookup, input, built>>

\* the readiness function: d.client.GetUpdateStatus fails (false, err) or
\* answers (syncProgress.Complete, nil); the call takes some time
cloudns_GetUpdateStatus(c) ==
    /\ pc[c] = "w_call"
    /\ \E d \in 1..MaxCallTime, answered \in BOOLEAN :
          LET p == [poll EXCEPT !.elapsed = @ + d, !.polls = @ + 1,
                                !.lastErr = @ \/ ~answered]
          IN IF answered /\ poll.synced
             THEN /\ poll' = [p EXCEPT !.outcome = "synced", !.returned = Len(log) + 1]
                  /\ Return(c, NilErr)
             ELSE /\ poll' = p
                  /\ Goto(c, "w_sleep")
                  /\ UNCHANGED <<call, loc, log>>
    /\ UNCHANGED <<tfa, user, kind, s0, records, nextID, recordIDs, mu, created, lookup, input, built>>

\* the tail of the wait loop: sleep for the interval, then go round again
wait_Sleep(c) ==
    /\ pc[c] = "w_sleep"
    /\ poll' = [poll EXCEPT !.elapsed = @ + poll.interval,
                            !.sleeps = Append(@, poll.interval)]
    /\ Goto(c, "w_check")
    /\ UNCHANGED <<tfa, user, kind, s0, records, nextID, recordIDs, mu, call, loc, created, log,
                   lookup, input, built>>

\* the backend's name servers finish their synchronisation
BackendSyncs ==
    /\ ~poll.synced
    /\ poll' = [poll EXCEPT !.synced = TRUE]
    /\ UNCHANGED <<tfa, user, kind, s0, records, nextID, recordIDs, mu, pc, call, loc, created, log,
                   lookup, input, built>>

InitWait ==
    /\ kind = "cloudns"
    /\ AtRest
    /\ poll = NoPoll /\ lookup = None /\ input = None
    /\ tfa = None /\ user = None
    /\ \E t \in 0..MaxTimeout, i \in 0..MaxInterval :
          built = [env |-> Built(Config(60, <<t, "s">>, <<i, "s">>, <<30, "s">>,
                                        "default")),
                   doc |-> NotBuilt]

\* the steps of a running Present
WaitSteps(c) ==
    \/ Resolve(c)
    \/ CreateTXT(c)
    \/ waitNameservers(c)
    \/ wait_TimeUp(c)
    \/ cloudns_GetUpdateStatus(c)
    \/ wait_Sleep(c)

\* the caller calls Present, the handler that waits, one call after the other
NextWait ==
    \/ /\ Len(log) < MaxWaits
       /\ StartCall(FirstCaller)
       /\ call'[FirstCaller].op = "Present" /\ call'[FirstCaller].token = 1
    \/ WaitSteps(FirstCaller)
    \/ BackendSyncs

SpecWait == InitWait /\ [][NextWait]_vars

\* a call, once made, runs on: the caller blocks in it until it returns
SpecWaitFair == SpecWait /\ WF_vars(WaitSteps(FirstCaller))

\* C12: the wait of cloudns.Present sleeps exactly the configured
\* pollingInterval between two polls, makes no poll once the configured
\* propagationTimeout has elapsed, returns success only for a poll that found
\* the backend ready and a terminal error only once the timeout has elapsed,
\* and every wait that starts also ends.
C12_WaitEnds ==
    /\ [](/\ \A i \in 1..Len(poll.sleeps) : poll.sleeps[i] = TheConfig.pollingInterval[1]
          /\ pc[FirstCaller] \in {"w_check", "w_call"} => Len(poll.sleeps) = poll.polls
          /\ pc[FirstCaller] = "w_call" => poll.elapsed < TheConfig.propagationTimeout[1]
          /\ poll.outcome = "synced" =>
                poll.synced /\ log[poll.returned].err = NilErr
          /\ poll.outcome = "timeout" =>
                /\ poll.elapsed >= TheConfig.propagationTimeout[1]
                /\ log[poll.returned].err = Err("", "wait", <<>>))
    /\ (pc[FirstCaller] \in {"wait", "w_check", "w_call", "w_sleep"})
           ~> (pc[FirstCaller] = "idle")

C12_Witness ==
    /\ poll.outcome = "timeout"
    /\ poll.polls >= 2
    /\ poll.sleeps = <<TheConfig.pollingInterval[1], TheConfig.pollingInterval[1]>>

\* ---------------------------------------------------------------- zone and subdomain
\* names are strings, here sequences of characters; a name is one to MaxLabels
\* labels joined by dots
MaxLabels == 3
Labels == {<<"a">>, <<"b">>, <<"b", "a">>}

\* strings.Join(labels, ".")
RECURSIVE Join(_)
Join(ls) == IF Len(ls) = 1 THEN ls[1] ELSE ls[1] \o <<".">> \o Join(Tail(ls))

NamesOf(n) == {Join(ls) : ls \in UNION {[1..k -> Labels] : k \in 1..n}}

\* strings.HasSuffix(s, suffix)
HasSuffix(s, suffix) ==
    /\ Len(suffix) <= Len(s)
    /\ SubSeq(s, Len(s) - Len(suffix) + 1, Len(s)) = suffix

\* what a resolver returns: the zone and the subdomain, an error, or a panic
Found(zone, sub) == [err |-> "nil", zone |-> zone, sub |-> sub]
NotFound(e) == [err |-> e, zone |-> <<>>, sub |-> <<>>]

\* ionos.findZone: the loop over zones[i..], result being the zone held so far
\* (<<>> for nil)
RECURSIVE findZone(_, _, _, _)
findZone(zones, domain, i, result) ==
    IF i > Len(zones)
    THEN (IF result = <<>> THEN NotFound("notfound") ELSE Found(result, <<>>))
    ELSE findZone(zones, domain, i + 1,
                  IF /\ zones[i] # <<>> /\ HasSuffix(domain, zones[i])
                     /\ (result = <<>> \/ Len(zones[i]) > Len(result))
                  THEN zones[i] ELSE result)

\* liquidweb findZone: the zones the name ends with, sorted by falling length,
\* the first of them
liquidweb_findZone(zones, domain) ==
    LET zs == {z \in Range(zones) : HasSuffix(domain, z)}
    IN IF zs = {} THEN NotFound("notfound")
       ELSE Found(CHOOSE z \in zs : \A y \in zs : Len(y) <= Len(z), <<>>)

\* dns01.FindZoneByFqdn: walks the label boundaries of the name from the full
\* name toward the root and answers the first name that is a zone
FindZoneByFqdn(zones, fqdn) ==
    LET known == {z \in Range(zones) : z = fqdn \/ HasSuffix(fqdn, <<".">> \o z)}
    IN IF known = {} THEN NotFound("notfound")
       ELSE Found(CHOOSE z \in known : \A y \in known : Len(y) <= Len(z), <<>>)

\* auroradns: subdomain := info.EffectiveFQDN[0 : len(info.EffectiveFQDN)-len(authZone)-1],
\* both names in the trailing-dot form; a negative bound is a runtime panic
auroradns_subdomain(fqdn, authZone) ==
    LET high == Len(fqdn \o <<".">>) - Len(authZone \o <<".">>) - 1
    IN IF high < 0 THEN NotFound("panic")
       ELSE Found(authZone, SubSeq(fqdn \o <<".">>, 1, high))

\* yandex (n = 2) and ipv64 (n = 3) splitDomain: dns.Split gives the offsets at
\* which the labels start; the last n labels are the domain
splitDomain(full, n) ==
    LET split == {0} \cup {i \in 1..(Len(full) - 1) : full[i] = "."}
        at == CHOOSE o \in split : Cardinality({x \in split : x >= o}) = n
    IN IF Cardinality(split) < n THEN NotFound("unsupported")
       ELSE IF Cardinality(split) = n THEN Found(full, <<>>)
       ELSE Found(SubSeq(full, at + 1, Len(full)), SubSeq(full, 1, at - 1))

\* the adapters that resolve the zone or the subdomain themselves
ResolverKinds == {"ionos", "liquidweb", "auroradns", "yandex", "ipv64"}

\* the adapter resolves the name it is asked about
ResolveName ==
    /\ lookup.out = None
    /\ lookup' =
          [lookup EXCEPT !.out =
              IF kind = "ionos" THEN findZone(lookup.zones, lookup.name, 1, <<>>)
              ELSE IF kind = "liquidweb" THEN liquidweb_findZone(lookup.zones, lookup.name)
              ELSE IF kind = "auroradns"
              THEN (LET authZone == FindZoneByFqdn(lookup.zones, lookup.name)
                    IN IF authZone.err # "nil" THEN authZone
                       ELSE auroradns_subdomain(lookup.name, authZone.zone))
              ELSE IF kind = "yandex" THEN splitDomain(lookup.name \o <<".">>, 2)
              ELSE splitDomain(lookup.name, 3)]
    /\ UNCHANGED <<tfa, user, kind, s0, records, nextID, recordIDs, mu, pc, call, loc, created, log,
                   poll, input, built>>

\* any challenge name, and any one or two zones in the account (none for the
\* adapters that look at the name only)
InitResolver ==
    /\ kind \in ResolverKinds
    /\ AtRest
    /\ poll = None /\ input = None /\ built = None
    /\ tfa = None /\ user = None
    /\ \E name \in NamesOf(MaxLabels), z1, z2 \in NamesOf(MaxLabels) :
          lookup = [name |-> name,
                    zones |-> IF kind \in {"yandex", "ipv64"} THEN <<>>
                              ELSE IF z1 = z2 THEN <<z1>> ELSE <<z1, z2>>,
                    out |-> None]

NextResolver == ResolveName

SpecResolver == InitResolver /\ [][NextResolver]_vars

\* the zones of the account that end the name at a label boundary
AtBoundary ==
    {z \in Range(lookup.zones) : z = lookup.name \/ HasSuffix(lookup.name, <<".">> \o z)}

\* C13: for every name and every set of zones known to the account, the zone
\* resolver (ionos, liquidweb) selects the longest known zone that is a suffix of
\* the name at a label boundary, and finds none when no known zone is one.
C13_LongestZoneAtLabelBoundary ==
    (kind \in {"ionos", "liquidweb"} /\ lookup.out # None) =>
        IF AtBoundary = {} THEN lookup.out.err = "notfound"
        ELSE /\ lookup.out.err = "nil"
             /\ lookup.out.zone \in AtBoundary
             /\ \A z \in AtBoundary : Len(z) <= Len(lookup.out.zone)

\* C14: for every challenge name and its resolved zone (auroradns, yandex,
\* ipv64), the computed subdomain followed by a dot and the zone is the name,
\* and it is empty when the name is the zone apex.
C14_SubdomainIsNameWithoutZone ==
    (/\ kind \in {"auroradns", "yandex", "ipv64"}
     /\ lookup.out # None
     /\ lookup.out.err \notin {"notfound", "unsupported"}) =>
        LET full == IF kind = "yandex" THEN lookup.name \o <<".">> ELSE lookup.name
        IN /\ lookup.out.err = "nil"
           /\ IF lookup.out.zone = full THEN lookup.out.sub = <<>>
              ELSE lookup.out.sub \o <<".">> \o lookup.out.zone = full

\* ---------------------------------------------------------------- configuration
\* The two construction paths of an adapter.  input is what the operator
\* supplies, through the environment or through the document: whether the
\* required credentials are given, and the optional ttl (0: not given),
\* propagationTimeout (<<>>: not given) and endpoint ("": not given).
ConfigKinds == {"vegadns", "versio", "loopia", "linode", "gandiv5", "bindman",
                "checkdomain", "variomedia", "edgedns"}

\* the adapters whose endpoint can be set through both paths
EndpointKinds == {"versio", "loopia", "checkdomain"}

\* loopia.go 18, gandiv5.go 22, part_002 697
minTTL == 300

\* DefaultConfig(): the fields of *Config.  cred stands for the credential
\* fields being non-empty, BaseURL for the endpoint string field, endpoint for
\* the parsed URL field (versio baseURL, checkdomain Endpoint; "nil" when the
\* field is nil or absent).  bindman has no TTL field; versio and variomedia
\* have a SequenceInterval field (<<>> for the adapters without one).
DefaultConfig(k) ==
    LET c(ttl, timeout, interval, http, url) ==
           [cred |-> FALSE, ttl |-> ttl, propagationTimeout |-> timeout,
            pollingInterval |-> interval, httpTimeout |-> http,
            BaseURL |-> "", endpoint |-> url,
            sequenceInterval |-> IF k \in {"versio", "variomedia"} THEN <<60, "s">>
                                 ELSE <<>>]
    IN CASE k = "vegadns" -> c(10, <<12, "m">>, <<1, "m">>, <<0, "s">>, "nil")
         [] k = "versio" -> c(300, <<60, "s">>, <<5, "s">>, <<30, "s">>, "default")
         [] k = "loopia" -> c(minTTL, <<40, "m">>, <<60, "s">>, <<60, "s">>, "nil")
         [] k = "linode" -> c(minTTL, <<60, "s">>, <<15, "s">>, <<30, "ns">>, "nil")
         [] k = "gandiv5" -> c(minTTL, <<20, "m">>, <<20, "s">>, <<10, "s">>, "nil")
         [] k = "bindman" -> c(0, <<60, "s">>, <<2, "s">>, <<1, "m">>, "nil")
         [] k = "checkdomain" -> c(300, <<5, "m">>, <<7, "s">>, <<30, "s">>, "nil")
         [] k = "variomedia" -> c(300, <<60, "s">>, <<2, "s">>, <<30, "s">>, "nil")
         [] k = "edgedns" -> c(120, <<3, "m">>, <<15, "s">>, <<0, "s">>, "nil")

\* NewDefaultConfig(): the defaults of the environment path, each replaced by
\* its environment variable when that is set.  linode's defaults for the two
\* timeouts are 0 here; versio reads its endpoint into baseURL.
NewDefaultConfig(k, in) ==
    LET d == DefaultConfig(k)
        e == IF k = "linode"
             THEN [d EXCEPT !.propagationTimeout = <<0, "s">>, !.httpTimeout = <<0, "s">>]
             ELSE d
    IN [e EXCEPT !.ttl = IF k # "bindman" /\ in.ttl # 0 THEN in.ttl ELSE @,
                 !.propagationTimeout = IF in.propagationTimeout # <<>>
                                        THEN in.propagationTimeout ELSE @,
                 !.endpoint = IF k = "versio" /\ in.endpoint # "" THEN in.endpoint ELSE @]

\* NewDNSProviderConfig(config); config is None for a nil pointer.  The settings
\* of the adapter returned are those of config, with the endpoint the client
\* ends up with.
NewDNSProviderConfig(k, config) ==
    IF config = None
    THEN (IF k \in {"checkdomain", "variomedia"} THEN Failed("panic") ELSE Failed("nil"))
    ELSE IF k = "checkdomain" /\ config.endpoint = "nil" THEN Failed("endpoint")
    ELSE IF k = "bindman" /\ config.BaseURL = "" THEN Failed("missing")
    ELSE IF k \notin {"vegadns", "bindman", "edgedns"} /\ ~config.cred
         THEN Failed("missing")
    ELSE IF k \in {"gandiv5", "linode"} /\ config.ttl < minTTL THEN Failed("ttl")
    ELSE Built(Config(IF k = "loopia" /\ config.ttl < 300 THEN 300 ELSE config.ttl,
                      config.propagationTimeout, config.pollingInterval,
                      config.httpTimeout,
                      CASE k = "versio" ->
                               IF config.BaseURL # "" THEN config.endpoint ELSE "default"
                        [] k \in {"loopia", "gandiv5"} ->
                               IF config.BaseURL # "" THEN config.BaseURL ELSE "default"
                        [] k = "checkdomain" -> config.endpoint
                        [] k \in {"vegadns", "bindman"} -> config.BaseURL
                        [] OTHER -> "default"))

\* NewDNSProvider(): the environment path.  env.Get fails when a required
\* variable is unset (gandiv5 reads its keys with GetOrFile instead; edgedns
\* fails in edgegrid.Init).
FromEnvironment(k, in) ==
    IF k # "gandiv5" /\ ~in.cred THEN Failed("missing")
    ELSE LET c == NewDefaultConfig(k, in)
         IN NewDNSProviderConfig(k,
               [c EXCEPT !.cred = in.cred,
                         !.BaseURL =
                             IF k \in {"vegadns", "bindman"} THEN "custom"
                             ELSE IF k = "loopia"
                             THEN (IF in.endpoint # "" THEN in.endpoint ELSE "default")
                             ELSE @,
                         !.endpoint =
                             IF k = "checkdomain"
                             THEN (IF in.endpoint # "" THEN in.endpoint ELSE "default")
                             ELSE @])

\* the environment path taken with the input as the process environment
NewDNSProvider ==
    /\ built.env = NotBuilt
    /\ built' = [built EXCEPT !.env = FromEnvironment(kind, input)]
    /\ UNCHANGED <<tfa, user, kind, s0, records, nextID, recordIDs, mu, pc, call, loc, created, log,
                   poll, lookup, input>>

\* ParseConfig(rawConfig): yaml.Unmarshal over DefaultConfig() binds a key of
\* the document to the field tagged with it.  bindman's BaseURL carries a json
\* tag only and checkdomain's PropagationTimeout is tagged "PropagationTimeout",
\* so the keys baseURL and propagationTimeout bind nothing there.  versio and
\* checkdomain then parse the endpoint string.
FromDocument(k, in) ==
    LET d == DefaultConfig(k)
        c == [d EXCEPT
                !.cred = IF k = "bindman" THEN FALSE ELSE in.cred,
                !.ttl = IF k # "bindman" /\ in.ttl # 0 THEN in.ttl ELSE @,
                !.propagationTimeout =
                    IF k # "checkdomain" /\ in.propagationTimeout # <<>>
                    THEN in.propagationTimeout ELSE @,
                !.BaseURL =
                    IF k = "vegadns" THEN (IF in.cred THEN "custom" ELSE "")
                    ELSE IF k \in EndpointKinds THEN in.endpoint
                    ELSE @]
    IN [c EXCEPT !.endpoint =
           IF k = "versio" /\ c.BaseURL # "" THEN c.BaseURL
           ELSE IF k = "checkdomain"
           THEN (IF c.BaseURL # "" THEN c.BaseURL ELSE "default")
           ELSE @]

\* ParseConfig of the well-formed document that carries the input
ParseConfig ==
    /\ built.parsed = NotBuilt
    /\ built' = [built EXCEPT !.parsed = Built(FromDocument(kind, input))]
    /\ UNCHANGED <<tfa, user, kind, s0, records, nextID, recordIDs, mu, pc, call, loc, created, log,
                   poll, lookup, input>>

\* NewDNSChallengeProviderByName: the declarative path hands the parsed config
\* to NewDNSProviderConfig
NewDNSChallengeProviderByName ==
    /\ built.parsed # NotBuilt /\ built.doc = NotBuilt
    /\ built' = [built EXCEPT !.doc = NewDNSProviderConfig(kind, built.parsed.config)]
    /\ UNCHANGED <<tfa, user, kind, s0, records, nextID, recordIDs, mu, pc, call, loc, created, log,
                   poll, lookup, input>>

\* NewDNSProviderConfig(nil)
NewDNSProviderConfigNil ==
    /\ built.nilc = NotBuilt
    /\ built' = [built EXCEPT !.nilc = NewDNSProviderConfig(kind, None)]
    /\ UNCHANGED <<tfa, user, kind, s0, records, nextID, recordIDs, mu, pc, call, loc, created, log,
                   poll, lookup, input>>

\* ParseConfig(rawConfig) on a malformed document: yaml.Unmarshal returns an
\* error, which ParseConfig returns; versio and checkdomain also return the
\* error of url.Parse.  edgedns goes on to read the ini text under the key
\* config and ends the process with log.Fatalf when that text is malformed.
ParseConfigMalformed ==
    /\ built.malformed = NotBuilt
    /\ \E part \in {"yaml", "url", "ini"} :
          /\ part = "url" => kind \in {"versio", "checkdomain"}
          /\ part = "ini" => kind = "edgedns"
          /\ built' = [built EXCEPT !.malformed =
                          IF part = "ini" THEN Failed("exit") ELSE Failed("parse")]
    /\ UNCHANGED <<tfa, user, kind, s0, records, nextID, recordIDs, mu, pc, call, loc, created, log,
                   poll, lookup, input>>

\* the minutes of the hour at which Timeout is called
MaxMinute == 2

\* Timeout() of the adapter the environment path built.  linode computes the
\* timeout from the clock when PropagationTimeout is not positive: the minutes
\* left to the next multiple of dnsUpdateFreqMins (15), plus minTTL seconds,
\* plus dnsUpdateFudgeSecs (120).
Timeout ==
    /\ built.env.err = "nil" /\ built.timeout = NotBuilt
    /\ \E minute \in 0..MaxMinute :
          built' = [built EXCEPT !.timeout =
                       [timeout |-> IF kind = "linode" /\ TheConfig.propagationTimeout[1] <= 0
                                    THEN <<(15 - (minute % 15)) * 60 + minTTL + 120, "s">>
                                    ELSE TheConfig.propagationTimeout,
                        interval |-> TheConfig.pollingInterval]]
    /\ UNCHANGED <<tfa, user, kind, s0, records, nextID, recordIDs, mu, pc, call, loc, created, log,
                   poll, lookup, input>>

\* Sequential() of the adapter the environment path built, where the adapter
\* has the method: variomedia has, versio has not
Sequential ==
    /\ built.env.err = "nil" /\ built.sequential = NotBuilt
    /\ built' = [built EXCEPT !.sequential =
                    IF kind = "variomedia"
                    THEN [has |-> TRUE,
                          interval |-> NewDefaultConfig(kind, input).sequenceInterval]
                    ELSE [has |-> FALSE, interval |-> <<>>]]
    /\ UNCHANGED <<tfa, user, kind, s0, records, nextID, recordIDs, mu, pc, call, loc, created, log,
                   poll, lookup, input>>

\* the factory as it would be if the default case built an adapter
ByNameDefaultBuilds ==
    /\ built.byName = NotBuilt
    /\ \E name \in {kind, "nosuch"},
          env \in {input, [cred |-> FALSE, ttl |-> 0, propagationTimeout |-> <<>>,
                           endpoint |-> ""]} :
          built' = [built EXCEPT !.byName =
                       IF name \notin ConfigKinds
                       THEN [name |-> name, ran |-> {"NewDNSProvider"},
                             result |-> FromEnvironment(kind, env)]
                       ELSE IF name \in {"bindman", "checkdomain"}
                       THEN [name |-> name, ran |-> {"ParseConfig", "NewDNSProviderConfig"},
                             result |-> NewDNSProviderConfig(name, FromDocument(name, input))]
                       ELSE [name |-> name, ran |-> {"NewDNSProvider"},
                             result |-> FromEnvironment(name, env)]]
    /\ UNCHANGED <<tfa, user, kind, s0, records, nextID, recordIDs, mu, pc, call, loc, created, log,
                   poll, lookup, input>>

\* NewDNSChallengeProviderByName(name, rawConfig) of dns_provider.go: bindman and
\* checkdomain are built from rawConfig, the other adapters by NewDNSProvider()
\* from the environment of the process, whatever that holds; any other name
\* is the default case.  ran lists the constructors called.
ByName ==
    /\ built.byName = NotBuilt
    /\ \E name \in {kind, "nosuch"},
          env \in {input, [cred |-> FALSE, ttl |-> 0, propagationTimeout |-> <<>>,
                           endpoint |-> ""]} :
          built' = [built EXCEPT !.byName =
                       IF name \notin ConfigKinds
                       THEN [name |-> name, ran |-> {},
                             result |-> [err |-> "unrecognized", name |-> name]]
                       ELSE IF name \in {"bindman", "checkdomain"}
                       THEN [name |-> name, ran |-> {"ParseConfig", "NewDNSProviderConfig"},
                             result |-> NewDNSProviderConfig(name, FromDocument(name, input))]
                       ELSE [name |-> name, ran |-> {"NewDNSProvider"},
                             result |-> FromEnvironment(name, env)]]
    /\ UNCHANGED <<tfa, user, kind, s0, records, nextID, recordIDs, mu, pc, call, loc, created, log,
                   poll, lookup, input>>

InitConfig ==
    /\ kind \in ConfigKinds
    /\ AtRest
    /\ poll = None /\ lookup = None
    /\ tfa = None /\ user = None
    /\ built = [env |-> NotBuilt, parsed |-> NotBuilt, doc |-> NotBuilt, nilc |-> NotBuilt,
                malformed |-> NotBuilt, byName |-> NotBuilt, timeout |-> NotBuilt,
                sequential |-> NotBuilt]
    /\ \E cred \in BOOLEAN, ttl \in {0, minTTL - 1, minTTL, 3600},
          timeout \in {<<>>, <<90, "s">>}, endpoint \in {"", "custom"} :
          /\ endpoint # "" => kind \in EndpointKinds
          /\ input = [cred |-> cred, ttl |-> ttl, propagationTimeout |-> timeout,
                      endpoint |-> endpoint]

NextConfig ==
    \/ NewDNSProvider
    \/ ParseConfig
    \/ NewDNSChallengeProviderByName
    \/ NewDNSProviderConfigNil
    \/ ParseConfigMalformed
    \/ ByName
    \/ Timeout
    \/ Sequential

SpecConfig == InitConfig /\ [][NextConfig]_vars

\* C15: for every adapter, an input that the environment path rejects (a
\* missing required credential or endpoint, a ttl below the minimum) is
\* rejected by the declarative path with the same kind of error.
C15_DeclarativePathRejectsTheSame ==
    (built.env.err \notin {"notbuilt", "nil"} /\ built.doc # NotBuilt) =>
        built.doc.err = built.env.err

\* C16: for every adapter, the same credentials and the same explicit
\* overrides given through the environment and through the document produce
\* adapters with the same effective ttl, propagationTimeout, pollingInterval,
\* HTTP timeout and endpoint.
C16_SameEffectiveSettings ==
    (built.env.err = "nil" /\ built.doc.err = "nil") =>
        built.doc.config = built.env.config

\* C17: for every adapter, NewDNSProviderConfig(nil) returns a configuration
\* error and no adapter; it never dereferences the nil config.
C17_NilConfigIsAnError ==
    built.nilc # NotBuilt => built.nilc = Failed("nil")

\* C18: for every adapter, construction with a required credential omitted
\* fails with a missing-credentials error, on either path.
C18_MissingCredentialsFail ==
    ~input.cred =>
        /\ built.env # NotBuilt => built.env = Failed("missing")
        /\ built.doc # NotBuilt => built.doc = Failed("missing")

\* C19: for every adapter whose backend has a minimum TTL (loopia, gandiv5,
\* linode), NewDNSProviderConfig with a ttl below the minimum fails and returns
\* no adapter, and with a ttl equal to the minimum it succeeds.
C19_TTLBelowMinimumFails ==
    (/\ kind \in {"loopia", "gandiv5", "linode"}
     /\ built.doc # NotBuilt
     /\ built.parsed.config.cred) =>
        /\ built.parsed.config.ttl < minTTL => built.doc.err \notin {"nil", "panic"}
        /\ built.parsed.config.ttl = minTTL => built.doc.err = "nil"

\* C20: for every adapter, ParseConfig returns the default config overlaid
\* with the document: a field the document sets under its documented key has
\* the document's value, a field the document omits has its default.
C20_ParseConfigOverlaysDefaults ==
    built.parsed # NotBuilt =>
        LET c == built.parsed.config
            d == DefaultConfig(kind)
        IN /\ kind # "bindman" => c.ttl = (IF input.ttl # 0 THEN input.ttl ELSE d.ttl)
           /\ c.propagationTimeout = (IF input.propagationTimeout # <<>>
                                      THEN input.propagationTimeout
                                      ELSE d.propagationTimeout)
           /\ c.pollingInterval = d.pollingInterval
           /\ c.httpTimeout = d.httpTimeout
           /\ kind \in EndpointKinds => c.BaseURL = input.endpoint
           /\ kind \in {"vegadns", "bindman"} =>
                 c.BaseURL = (IF input.cred THEN "custom" ELSE d.BaseURL)

\* ---------------------------------------------------------------- errors of the handlers
\* C23: whenever a backend call made inside Present or CleanUp fails, the
\* call returns an error that carries the provider name; a failed backend
\* operation is never reported as success.
C23_BackendErrorsWrapped ==
    \A i \in 1..Len(log) :
        /\ log[i].err[2] = "backend" => log[i].err[1] # ""
        /\ log[i].failed # <<>> => log[i].err # NilErr

\* ---------------------------------------------------------------- construction errors
\* C21: for every adapter, ParseConfig on a malformed document returns to its
\* caller with a parse error and no config.
C21_MalformedDocumentIsAnError ==
    built.malformed # NotBuilt => built.malformed = Failed("parse")

\* C22: NewDNSChallengeProviderByName with a name that is not registered
\* returns an error naming the requested string and no adapter, and calls no
\* config parser and no adapter constructor.
C22_UnknownNameIsAnError ==
    (built.byName # NotBuilt /\ built.byName.name \notin ConfigKinds) =>
        /\ built.byName.result = [err |-> "unrecognized", name |-> built.byName.name]
        /\ built.byName.ran = {}

C22_Witness ==
    /\ built.byName # NotBuilt
    /\ built.byName.name = "nosuch"
    /\ built.byName.result.err = "unrecognized"

\* C27: for every registered name, the adapter NewDNSChallengeProviderByName
\* returns is the one ParseConfig and NewDNSProviderConfig make of rawConfig,
\* whatever the environment of the process holds.
C27_ConfiguredFromRawConfig ==
    (/\ built.byName # NotBuilt
     /\ built.byName.name \in ConfigKinds
     /\ built.doc # NotBuilt) =>
        built.byName.result = built.doc

\* ---------------------------------------------------------------- capabilities
\* C25: for every adapter, Timeout() returns exactly the propagationTimeout
\* and the pollingInterval of its config, whatever the time of the call.
C25_TimeoutReturnsTheConfig ==
    built.timeout # NotBuilt =>
        built.timeout = [timeout |-> TheConfig.propagationTimeout,
                         interval |-> TheConfig.pollingInterval]

\* C28: every adapter whose Config carries a sequenceInterval has the
\* Sequential() method, and Sequential() returns that configured interval.
C28_SequentialReturnsTheInterval ==
    (built.sequential # NotBuilt /\ DefaultConfig(kind).sequenceInterval # <<>>) =>
        /\ built.sequential.has
        /\ built.sequential.interval = NewDefaultConfig(kind, input).sequenceInterval

\* C26: a Present that returns an error leaves every lifecycle map as it was:
\* once every call has returned and each of them was a Present that returned an
\* error, the maps of the instance are still as construction left them, empty.
C26_FailedPresentStoresNothing ==
    (Quiet /\ \A i \in 1..Len(log) : log[i].op = "Present" /\ log[i].err # NilErr)
        => recordIDs = <<>>

\* C30: on one inwx instance no two two-factor unlocks use the same 30-second
\* TOTP period, also when Present and CleanUp calls overlap.
C30_UnlocksUseDistinctPeriods ==
    \A i, j \in 1..Len(tfa.unlocks) : i # j => tfa.unlocks[i] # tfa.unlocks[j]

\* C24: an adapter's only mutable in-process state is its lock-guarded lifecycle
\* map: every write of an instance field is made while the instance's mutex
\* is held, so previousUnlock changes only under the mutex.
C24_InstanceFieldsWrittenUnderLock ==
    [][tfa.previousUnlock' # tfa.previousUnlock => mu # 0]_vars

\* C29: ObtainCertificate(certCfg, provider) requests the certificate with the
\* key type of certCfg.EncType, whatever RegisterNewUser or ObtainCertificate
\* calls came before on the same LegoUser.
C29_RequestUsesTheEncType ==
    \A i \in 1..Len(user.requests) :
        user.requests[i].KeyType = ConvertKeyType(user.requests[i].EncType)

====
